---- MODULE Spec2Model ----
(***************************************************************************)
(* Competency Matrix API (src/main.py): the ingest handler, the two read   *)
(* handlers and the three collections of the document store they share.    *)
(*                                                                         *)
(* A Python string is a sequence of symbols (<<"a", " ", "b">> is "a b");  *)
(* the field names of the fixed JSON schema are written as one symbol      *)
(* (<<"job_title">>).  A JSON value is a tagged record: Null, Str, Num,    *)
(* List (a sequence of values) or Obj (a sequence of <<key, value>> pairs  *)
(* in insertion order, as a Python dict keeps them).                       *)
(***************************************************************************)
EXTENDS Integers, Sequences, FiniteSets, TLC

VARIABLES
    dbAvailable,  \* "db is not None": the store handle bound at import
    store,        \* collection name -> sequence of documents, insertion order
    req,          \* each request thread's request and, once answered, its response
    appends,      \* replace=false ingests since the store was last cleared
    pc,           \* each request thread's position in its handler
    obs           \* what the read in flight has fetched so far

vars == <<dbAvailable, store, req, appends, pc, obs>>

(***************************************************************************)
(* Bounds of the model.                                                    *)
(***************************************************************************)
MaxAppends == 1     \* replace=false ingests accepted after the last clear
MaxTitleLen == 4    \* longest raw title of the title-normalisation runs
MaxKeys == 2        \* most keys of a mapping of the matrix-shape runs

(***************************************************************************)
(* JSON values.                                                            *)
(***************************************************************************)
Null == [t |-> "null"]
Str(s) == [t |-> "str", v |-> s]
Num(n) == [t |-> "num", v |-> n]
List(xs) == [t |-> "list", v |-> xs]
Obj(ps) == [t |-> "obj", v |-> ps]

EmptyStr == Str(<< >>)
EmptyList == List(<< >>)
EmptyObj == Obj(<< >>)

\* Python truthiness: None, "", 0, [] and {} are falsy.
Truthy(x) ==
    CASE x.t = "null" -> FALSE
      [] x.t = "num" -> x.v # 0
      [] OTHER -> Len(x.v) > 0

\* Python's "a or b".
Or(a, b) == IF Truthy(a) THEN a ELSE b

IsDict(x) == x.t = "obj"
IsList(x) == x.t = "list"
IsStr(x) == x.t = "str"

\* dict.get(key): the value of the last pair with that key, None when absent.
HasKey(o, k) == \E i \in DOMAIN o.v : o.v[i][1] = k
Get(o, k) ==
    IF HasKey(o, k)
    THEN o.v[CHOOSE i \in DOMAIN o.v :
                 o.v[i][1] = k /\ \A j \in DOMAIN o.v : o.v[j][1] = k => j <= i][2]
    ELSE Null

\* A dict is hashable-keyed: looking up a list or a dict raises TypeError.
Hashable(x) == x.t \notin {"list", "obj"}

\* dict.get(key) for a JSON key: only a str key can be present in a JSON object.
Lookup(o, key) == IF IsStr(key) THEN Get(o, key.v) ELSE Null

(***************************************************************************)
(* Python string functions.                                                *)
(***************************************************************************)
Whitespace == {" ", "\t"}
UpperCase == <<"A", "B", "C", "D">>
LowerCase == <<"a", "b", "c", "d">>
\* the symbols of the model's strings in code point order
Ord == <<"\t", " ", "1", "2", "A", "B", "C", "D", "_", "a", "b", "c", "d">>

IsUpper(c) == \E i \in DOMAIN UpperCase : UpperCase[i] = c
IsLower(c) == \E i \in DOMAIN LowerCase : LowerCase[i] = c
IsCased(c) == IsUpper(c) \/ IsLower(c)
LowerSym(c) == IF IsUpper(c) THEN LowerCase[CHOOSE i \in DOMAIN UpperCase : UpperCase[i] = c] ELSE c
UpperSym(c) == IF IsLower(c) THEN UpperCase[CHOOSE i \in DOMAIN LowerCase : LowerCase[i] = c] ELSE c

\* str.lower()
PyLower(s) == [i \in DOMAIN s |-> LowerSym(s[i])]

\* str.replace("_", " ")
ReplaceUnderscore(s) == [i \in DOMAIN s |-> IF s[i] = "_" THEN " " ELSE s[i]]

\* str.title(): a cased symbol is upper-cased when it starts a run of cased
\* symbols and lower-cased inside one.
PyTitle(s) ==
    [i \in DOMAIN s |->
        IF i > 1 /\ IsCased(s[i - 1]) THEN LowerSym(s[i]) ELSE UpperSym(s[i])]

DeriveLabel(s) == PyTitle(ReplaceUnderscore(s))

\* str(x) for the values the requests of this model make the handlers
\* stringify: a str is itself, an int (1 or 2 here) its digit.
Digits == <<"1", "2">>
PyStr(x) ==
    CASE x.t = "str" -> x.v
      [] x.t = "num" -> <<Digits[x.v]>>

\* str.split(): the maximal runs of non-whitespace symbols, in order.
RECURSIVE Split(_)
Split(s) ==
    IF s = << >> THEN << >>
    ELSE IF Head(s) \in Whitespace THEN Split(Tail(s))
    ELSE LET n == IF \E i \in DOMAIN s : s[i] \in Whitespace
                  THEN (CHOOSE i \in DOMAIN s :
                            s[i] \in Whitespace /\ \A j \in 1..(i - 1) : s[j] \notin Whitespace) - 1
                  ELSE Len(s)
         IN <<SubSeq(s, 1, n)>> \o Split(SubSeq(s, n + 1, Len(s)))

\* " ".join(words)
RECURSIVE Join(_)
Join(ws) ==
    IF ws = << >> THEN << >>
    ELSE IF Len(ws) = 1 THEN ws[1]
    ELSE ws[1] \o <<" ">> \o Join(Tail(ws))

\* str.strip()
RECURSIVE LStrip(_)
LStrip(s) == IF s # << >> /\ Head(s) \in Whitespace THEN LStrip(Tail(s)) ELSE s
RECURSIVE RStrip(_)
RStrip(s) ==
    IF s # << >> /\ s[Len(s)] \in Whitespace THEN RStrip(SubSeq(s, 1, Len(s) - 1)) ELSE s
Strip(s) == RStrip(LStrip(s))

\* a mutant: trims the ends but does not collapse inner whitespace
NormalizeTitleStripOnly(title) == Strip(title)

_normalize_title(title) == Strip(Join(Split(title)))

(***************************************************************************)
(* The store: three collections of documents.                              *)
(***************************************************************************)
MATRIX_COL == "competencymatrixentry"
STANDARDS_COL == "competencystandard"
DEFS_COL == "competencydefinition"
Collections == {MATRIX_COL, STANDARDS_COL, DEFS_COL}

EmptyStore == [c \in Collections |-> << >>]

\* database.create_document: insert one document into a collection.
create_document(st, col, doc) == [st EXCEPT ![col] = Append(@, doc)]

\* a mutant: delete_many deletes nothing
DeleteManyNothing(st, col) == st

\* collection.delete_many({})
delete_many(st, col) == [st EXCEPT ![col] = << >>]

\* a mutant: the definitions collection is not cleared
ClearOrderKeepDefs == <<MATRIX_COL, STANDARDS_COL>>

\* the delete_many calls of _clear_collections, in order
ClearOrder == <<MATRIX_COL, STANDARDS_COL, DEFS_COL>>

RECURSIVE DeleteEach(_, _)
DeleteEach(st, cols) ==
    IF cols = << >> THEN st ELSE DeleteEach(delete_many(st, Head(cols)), Tail(cols))

_clear_collections(st) == DeleteEach(st, ClearOrder)

\* field names of the payload and of the documents
F_job_title == <<"job_title">>
F_title == <<"title">>
F_competencies == <<"competencies">>
F_skills == <<"skills">>
F_level == <<"level">>
F_standards == <<"standards">>
F_mapping == <<"mapping">>
F_key == <<"key">>
F_id == <<"id">>
F_name == <<"name">>
F_label == <<"label">>
F_description == <<"description">>
F_values == <<"values">>
F_levels == <<"levels">>

(***************************************************************************)
(* ingest: what each loop iteration does: insert a document, skip, or      *)
(* raise (an attribute or type error, which ends the handler with the      *)
(* documents inserted so far left in the store).                           *)
(***************************************************************************)
DocItem(d) == [k |-> "doc", d |-> d]
SkipItem == [k |-> "skip"]
RaiseItem == [k |-> "raise"]

\* one entry of a list-shaped matrix
MatrixListItem(entry) ==
    IF ~IsDict(entry) THEN RaiseItem
    ELSE LET t == Or(Or(Get(entry, F_job_title), Get(entry, F_title)), EmptyStr)
             comps == Or(Or(Get(entry, F_competencies), Get(entry, F_skills)), EmptyList)
         IN IF ~IsStr(t) THEN RaiseItem
            ELSE IF _normalize_title(t.v) # << >>
                 THEN DocItem([job_title |-> _normalize_title(t.v), competencies |-> comps])
                 ELSE SkipItem

\* a mutant: the mapping shape stores its keys as they are
MatrixItemsRawKeys(matrix) ==
    IF IsDict(matrix)
    THEN [i \in DOMAIN matrix.v |->
            DocItem([job_title |-> matrix.v[i][1],
                     competencies |-> IF IsList(matrix.v[i][2]) THEN matrix.v[i][2]
                                      ELSE EmptyList])]
    ELSE IF IsList(matrix)
    THEN [i \in DOMAIN matrix.v |-> MatrixListItem(matrix.v[i])]
    ELSE << >>

MatrixItems(matrix) ==
    IF IsDict(matrix)
    THEN [i \in DOMAIN matrix.v |->
            DocItem([job_title |-> _normalize_title(matrix.v[i][1]),
                     competencies |-> IF IsList(matrix.v[i][2]) THEN matrix.v[i][2]
                                      ELSE EmptyList])]
    ELSE IF IsList(matrix)
    THEN [i \in DOMAIN matrix.v |-> MatrixListItem(matrix.v[i])]
    ELSE << >>

\* the inner loop of a mapping-shaped standards: the levels of one title
StandardsTitleItems(title, lvl_obj) ==
    LET levels == Or(lvl_obj, EmptyObj)
    IN IF ~IsDict(levels) THEN <<RaiseItem>>
       ELSE [j \in DOMAIN levels.v |->
               DocItem([job_title |-> _normalize_title(title),
                        level |-> PyStr(Str(levels.v[j][1])),
                        standards |-> Or(levels.v[j][2], EmptyObj)])]

RECURSIVE StandardsDictItems(_)
StandardsDictItems(pairs) ==
    IF pairs = << >> THEN << >>
    ELSE StandardsTitleItems(pairs[1][1], pairs[1][2]) \o StandardsDictItems(Tail(pairs))

StandardsListItem(item) ==
    IF ~IsDict(item) THEN RaiseItem
    ELSE LET t == Or(Or(Get(item, F_job_title), Get(item, F_title)), EmptyStr)
         IN IF ~IsStr(t) THEN RaiseItem
            ELSE DocItem([job_title |-> _normalize_title(t.v),
                          level |-> PyStr(Or(Get(item, F_level), EmptyStr)),
                          standards |-> Or(Or(Get(item, F_standards), Get(item, F_mapping)),
                                           EmptyObj)])

StandardsItems(standards) ==
    IF IsDict(standards) THEN StandardsDictItems(standards.v)
    ELSE IF IsList(standards)
    THEN [i \in DOMAIN standards.v |-> StandardsListItem(standards.v[i])]
    ELSE << >>

DefsListItem(d) ==
    IF ~IsDict(d) THEN RaiseItem
    ELSE LET key == Or(Get(d, F_key), Get(d, F_id))
         IN IF ~Truthy(key) THEN SkipItem
            ELSE DocItem([key |-> key,
                          label |-> Get(d, F_label),
                          description |-> Get(d, F_description),
                          values |-> Or(Or(Get(d, F_values), Get(d, F_levels)), EmptyObj)])

DefsItems(definitions) ==
    IF IsDict(definitions)
    THEN [i \in DOMAIN definitions.v |->
            LET value == definitions.v[i][2]
            IN DocItem([key |-> Str(definitions.v[i][1]),
                        label |-> IF IsDict(value) THEN Get(value, F_label) ELSE Null,
                        description |-> IF IsDict(value) THEN Get(value, F_description) ELSE Null,
                        values |-> IF IsDict(value) THEN Get(value, F_values) ELSE EmptyObj])]
    ELSE IF IsList(definitions)
    THEN [i \in DOMAIN definitions.v |-> DefsListItem(definitions.v[i])]
    ELSE << >>

\* a for loop of create_document calls, up to the first iteration that raises
RECURSIVE InsertAll(_, _, _)
InsertAll(r, col, items) ==
    IF r.raised \/ items = << >> THEN r
    ELSE CASE Head(items).k = "raise" -> [r EXCEPT !.raised = TRUE]
           [] Head(items).k = "skip" -> InsertAll(r, col, Tail(items))
           [] Head(items).k = "doc" ->
                InsertAll([store |-> create_document(r.store, col, Head(items).d),
                           raised |-> FALSE,
                           ops |-> r.ops + 1], col, Tail(items))

Unavailable == [status |-> 500, detail |-> "Database not available"]
InternalError == [status |-> 500, detail |-> "Internal Server Error"]

\* the three insert loops of ingest, after the optional clear
IngestInserts(r0, payload) ==
    InsertAll(InsertAll(InsertAll(r0, MATRIX_COL, MatrixItems(payload.matrix)),
                        STANDARDS_COL, StandardsItems(payload.standards)),
              DEFS_COL, DefsItems(payload.definitions))

IngestDone(r) ==
    [resp |-> IF r.raised THEN InternalError ELSE [status |-> 200, body |-> "ok"],
     store |-> r.store, ops |-> r.ops]

\* POST /api/ingest: the response, the store it leaves and the number of
\* store operations it issued
ingest(avail, st, payload) ==
    IF ~avail THEN [resp |-> Unavailable, store |-> st, ops |-> 0]
    ELSE IngestDone(IngestInserts(
            IF payload.replace
            THEN [store |-> _clear_collections(st), raised |-> FALSE, ops |-> 3]
            ELSE [store |-> st, raised |-> FALSE, ops |-> 0], payload))

(***************************************************************************)
(* The read handlers.                                                      *)
(***************************************************************************)
\* collection.find_one(filter): the first matching document in the
\* collection's natural (insertion) order, None when there is none.
MatrixMatches(st, title) ==
    {i \in DOMAIN st[MATRIX_COL] : st[MATRIX_COL][i].job_title = title}
StandardsMatches(st, title, level) ==
    {i \in DOMAIN st[STANDARDS_COL] :
        st[STANDARDS_COL][i].job_title = title /\ st[STANDARDS_COL][i].level = level}
First(S) == CHOOSE i \in S : \A j \in S : i <= j
Latest(S) == CHOOSE i \in S : \A j \in S : j <= i

\* Python's order on str: by code point, a proper prefix first
Code(c) == CHOOSE i \in DOMAIN Ord : Ord[i] = c
RECURSIVE LexLess(_, _)
LexLess(a, b) ==
    IF a = << >> THEN b # << >>
    ELSE IF b = << >> THEN FALSE
    ELSE IF Head(a) = Head(b) THEN LexLess(Tail(a), Tail(b))
    ELSE Code(Head(a)) < Code(Head(b))

\* sorted(set of str)
RECURSIVE Sorted(_)
Sorted(S) ==
    IF S = {} THEN << >>
    ELSE LET m == CHOOSE x \in S : \A y \in S \ {x} : LexLess(x, y)
         IN <<m>> \o Sorted(S \ {m})

\* the titles of the standards documents that pass "if t and l", in the order
\* in which setdefault first sees them
RECURSIVE LevelTitles(_, _)
LevelTitles(docs, seen) ==
    IF docs = << >> THEN << >>
    ELSE IF Head(docs).job_title # << >> /\ Head(docs).level # << >>
            /\ Head(docs).job_title \notin seen
    THEN <<Head(docs).job_title>> \o LevelTitles(Tail(docs), seen \cup {Head(docs).job_title})
    ELSE LevelTitles(Tail(docs), seen)

\* GET /api/titles
list_titles(avail, st) ==
    IF ~avail THEN [resp |-> Unavailable, store |-> st, ops |-> 0]
    ELSE LET titles == Sorted({st[MATRIX_COL][i].job_title : i \in DOMAIN st[MATRIX_COL]}
                              \ {<< >>})
             sdocs == st[STANDARDS_COL]
             ts == LevelTitles(sdocs, {})
             levels == [n \in DOMAIN ts |->
                          <<ts[n], Sorted({sdocs[i].level : i \in
                                {j \in DOMAIN sdocs : sdocs[j].job_title = ts[n]
                                                       /\ sdocs[j].level # << >>}})>>]
         IN [resp |-> [status |-> 200, titles |-> titles, levels |-> levels],
             store |-> st, ops |-> 2]

\* the iteration of matrix_entry["competencies"]: the items of a list, the
\* characters of a str, the keys of a dict; anything else is not iterable
Iterable(c) == c.t \in {"list", "str", "obj"}
Iterate(c) ==
    CASE c.t = "list" -> c.v
      [] c.t = "str" -> [i \in DOMAIN c.v |-> Str(<<c.v[i]>>)]
      [] c.t = "obj" -> [i \in DOMAIN c.v |-> Str(c.v[i][1])]

\* the level lookup table of the request
LevelMapping(st, title, level) ==
    IF Truthy(level) /\ StandardsMatches(st, title, PyStr(level)) # {}
    THEN Or(st[STANDARDS_COL][First(StandardsMatches(st, title, PyStr(level)))].standards,
            EmptyObj)
    ELSE EmptyObj

\* defs_map.get(key, {}): the last definition read with that key
DefMatches(st, key) == {i \in DOMAIN st[DEFS_COL] : st[DEFS_COL][i].key = key}
DefsGet(st, key) ==
    IF DefMatches(st, key) # {}
    THEN LET d == st[DEFS_COL][Latest(DefMatches(st, key))]
         IN [description |-> d.description, values |-> Or(d.values, EmptyObj)]
    ELSE [description |-> Null, values |-> EmptyObj]

\* the key of a competency reference (None when it has none)
RefKey(comp) ==
    IF IsStr(comp) THEN comp
    ELSE Or(Or(Get(comp, F_key), Get(comp, F_id)), Get(comp, F_name))

\* values_map.get(str(standard_value).lower())
ValueDefinition(values_map, standard_value) ==
    Get(values_map, PyLower(PyStr(standard_value)))

\* a mutant: a row's standard is taken from the table's first entry
StandardOfFirst(level_mapping, key) ==
    IF level_mapping.v = << >> THEN Null ELSE level_mapping.v[1][2]

\* level_mapping.get(key)
StandardOf(level_mapping, key) == Lookup(level_mapping, key)

\* one iteration of the loop over the competency references: a row, a skip
\* (no key), or an error raised
RowItem(st, level_mapping, comp) ==
    IF ~IsStr(comp) /\ ~IsDict(comp) THEN RaiseItem
    ELSE LET key == RefKey(comp)
             own == IF IsStr(comp) THEN Null ELSE Or(Get(comp, F_label), Get(comp, F_name))
             derive == ~Truthy(own) /\ Truthy(key)
         IN IF derive /\ ~IsStr(key) THEN RaiseItem
            ELSE IF ~Truthy(key) THEN SkipItem
            ELSE IF ~IsDict(level_mapping) \/ ~Hashable(key) THEN RaiseItem
            ELSE LET standard_value == StandardOf(level_mapping, key)
                     defn == DefsGet(st, key)
                 IN IF standard_value # Null /\ ~IsDict(defn.values) THEN RaiseItem
                    ELSE DocItem([key |-> key,
                                  label |-> IF derive THEN Str(DeriveLabel(key.v)) ELSE own,
                                  standard |-> standard_value,
                                  definition |-> defn.description,
                                  standard_definition |->
                                      IF standard_value # Null
                                      THEN ValueDefinition(defn.values, standard_value)
                                      ELSE Null])

RECURSIVE Rows(_)
Rows(items) ==
    IF items = << >> THEN << >>
    ELSE IF Head(items).k = "doc" THEN <<Head(items).d>> \o Rows(Tail(items))
    ELSE Rows(Tail(items))

\* GET /api/competencies
get_competencies(avail, st, title, level) ==
    IF ~avail THEN [resp |-> Unavailable, store |-> st, ops |-> 0]
    ELSE LET t == _normalize_title(title)
             nfind == IF Truthy(level) THEN 3 ELSE 2
         IN IF MatrixMatches(st, t) = {}
            THEN [resp |-> [status |-> 404, detail |-> "Title not found"],
                  store |-> st, ops |-> 1]
            ELSE LET entry == st[MATRIX_COL][First(MatrixMatches(st, t))]
                     level_mapping == LevelMapping(st, t, level)
                     items == IF Iterable(entry.competencies)
                              THEN [i \in DOMAIN Iterate(entry.competencies) |->
                                      RowItem(st, level_mapping, Iterate(entry.competencies)[i])]
                              ELSE <<RaiseItem>>
                 IN IF (\E i \in DOMAIN st[DEFS_COL] : ~Hashable(st[DEFS_COL][i].key))
                       \/ (\E i \in DOMAIN items : items[i].k = "raise")
                    THEN [resp |-> InternalError, store |-> st, ops |-> nfind]
                    ELSE [resp |-> [status |-> 200, title |-> t, level |-> level,
                                    items |-> Rows(items)],
                          store |-> st, ops |-> nfind]

(***************************************************************************)
(* Request inputs.                                                         *)
(***************************************************************************)
T_a == <<"a">>
T_ab == <<"a", " ", "b">>
K_c == <<"c">>
K_c_d == <<"c", "_", "d">>
V_ad == <<"a", "d">>
V_Ad == <<"A", "d">>
L_B == <<"B">>

Pair(k, v) == <<k, v>>

\* mapping shapes throughout; a reference without a key, an empty reference,
\* a definition that is not an object, a values key in upper case
MatrixMapping ==
    Obj(<<Pair(T_ab, List(<<Str(K_c_d),
                            Obj(<<Pair(F_key, Str(K_c)), Pair(F_label, Str(<<"Lbl">>))>>),
                            Obj(<<Pair(F_label, Str(<<"NoKey">>))>>),
                            EmptyStr,
                            Obj(<<Pair(F_name, Str(K_c))>>)>>))>>)
StandardsMapping ==
    Obj(<<Pair(T_ab, Obj(<<Pair(L_B, Obj(<<Pair(K_c, Str(V_Ad)), Pair(K_c_d, Str(V_ad))>>)),
                           Pair(<<"1">>, Null)>>))>>)
DefsMapping ==
    Obj(<<Pair(K_c, Obj(<<Pair(F_label, Str(<<"C">>)),
                          Pair(F_description, Str(<<"desc1">>)),
                          Pair(F_values, Obj(<<Pair(V_ad, Str(<<"text1">>))>>))>>)),
          Pair(K_c_d, Obj(<<Pair(F_values, Obj(<<Pair(V_Ad, Str(<<"text2">>))>>))>>)),
          Pair(<<"d">>, Str(<<"x">>))>>)

\* sequence shapes throughout, with the fallback fields, titles that differ
\* in whitespace, a numeric level, entries that are skipped
MatrixSequence ==
    List(<<Obj(<<Pair(F_job_title, Str(<<" ", "a", " ", "\t", "b">>)),
                 Pair(F_competencies, List(<<Str(K_c)>>))>>),
           Obj(<<Pair(F_title, Str(T_a)),
                 Pair(F_skills, List(<<Obj(<<Pair(F_id, Str(K_c))>>), Str(K_c_d)>>))>>),
           Obj(<<Pair(F_job_title, Str(<<" ">>)),
                 Pair(F_competencies, List(<<Str(K_c)>>))>>)>>)
StandardsSequence ==
    List(<<Obj(<<Pair(F_title, Str(<<"a", "\t", "b">>)), Pair(F_level, Num(2)),
                 Pair(F_mapping, Obj(<<Pair(K_c, Str(V_ad))>>))>>),
           Obj(<<Pair(F_job_title, Str(T_a)), Pair(F_level, Str(L_B)),
                 Pair(F_standards, Obj(<<Pair(K_c, Num(1)), Pair(K_c_d, Str(V_Ad))>>))>>)>>)
DefsSequence ==
    List(<<Obj(<<Pair(F_key, Str(K_c)), Pair(F_description, Str(<<"desc2">>)),
                 Pair(F_values, Obj(<<Pair(V_ad, Str(<<"text3">>)),
                                      Pair(<<"1">>, Str(<<"text4">>))>>))>>),
           Obj(<<Pair(F_label, Str(<<"NoKey">>))>>),
           Obj(<<Pair(F_id, Str(K_c_d)),
                 Pair(F_levels, Obj(<<Pair(V_ad, Str(<<"text5">>))>>))>>)>>)

\* the same title twice in one batch
MatrixDuplicateKeys ==
    Obj(<<Pair(T_a, List(<<Str(K_c)>>)), Pair(<<" ", "a">>, List(<<Str(K_c_d)>>))>>)
MatrixDuplicateEntries ==
    List(<<Obj(<<Pair(F_job_title, Str(T_ab)), Pair(F_competencies, List(<<Str(K_c)>>))>>),
           Obj(<<Pair(F_job_title, Str(T_ab)), Pair(F_competencies, List(<<Str(K_c_d)>>))>>)>>)

\* shapes the handler does not recognise
MatrixBareStrings == List(<<Str(T_a), Str(T_ab)>>)
StandardsTitleNotMapping == Obj(<<Pair(T_a, Str(<<"x">>))>>)
DefsItemsNotObjects == List(<<Obj(<<Pair(F_key, Str(K_c))>>), Str(<<"x">>)>>)
MatrixEmptyTitle ==
    Obj(<<Pair(<<" ">>, List(<<Str(K_c)>>)), Pair(T_a, Str(K_c))>>)
\* values that are stored as they are and that a later read cannot use
MatrixOddCompetencies ==
    List(<<Obj(<<Pair(F_job_title, Str(T_a)), Pair(F_competencies, Num(1))>>),
           Obj(<<Pair(F_job_title, Str(T_ab)),
                 Pair(F_competencies, List(<<Str(K_c), Num(1)>>))>>)>>)
StandardsOddMapping == Obj(<<Pair(T_a, Obj(<<Pair(L_B, Str(<<"x">>))>>))>>)

Payloads ==
    <<[matrix |-> MatrixMapping, standards |-> StandardsMapping, definitions |-> DefsMapping],
      [matrix |-> MatrixSequence, standards |-> StandardsSequence, definitions |-> DefsSequence],
      [matrix |-> MatrixDuplicateKeys, standards |-> StandardsSequence, definitions |-> DefsMapping],
      [matrix |-> MatrixDuplicateEntries, standards |-> StandardsMapping, definitions |-> DefsSequence],
      [matrix |-> MatrixBareStrings, standards |-> StandardsMapping, definitions |-> DefsMapping],
      [matrix |-> MatrixSequence, standards |-> StandardsTitleNotMapping, definitions |-> DefsSequence],
      [matrix |-> MatrixMapping, standards |-> StandardsSequence, definitions |-> DefsItemsNotObjects],
      [matrix |-> Str(T_a), standards |-> Num(1), definitions |-> Null],
      [matrix |-> MatrixEmptyTitle, standards |-> EmptyObj, definitions |-> EmptyList],
      [matrix |-> MatrixOddCompetencies, standards |-> StandardsOddMapping, definitions |-> DefsMapping]>>

Request(p, r) ==
    [matrix |-> p.matrix, standards |-> p.standards, definitions |-> p.definitions,
     replace |-> r]
\* the bodies posted: each payload with replace=true, and with replace=false a
\* well-formed one and one whose last loop raises
Requests ==
    {Request(Payloads[i], TRUE) : i \in DOMAIN Payloads}
    \cup {Request(Payloads[2], FALSE), Request(Payloads[7], FALSE)}

QueryTitles ==
    {T_a, <<" ", "a", "\t">>, T_ab, <<"a", " ", " ", "b">>, <<"a", "\t", "b", " ">>,
     <<"b">>, << >>}
QueryLevels == {Null, EmptyStr, Str(L_B), Str(<<"2">>), Str(<<"1">>), Str(<<"A">>)}

\* what an earlier run of the service may have left in the store
SeedStore == ingest(TRUE, EmptyStore, Request(Payloads[1], TRUE)).store


(***************************************************************************)
(* The handlers at work.  Each request is handled on a thread of its own   *)
(* and the handlers take no lock: a step is one store operation (or the    *)
(* statements around it) of one request, and the steps of requests in      *)
(* flight together come in any order.                                      *)
(***************************************************************************)
Writers == {"w1", "w2"}
Procs == Writers \cup {"r"}
Idle == [p \in Procs |-> [at |-> "idle", k |-> 0]]
NoRequest == [op |-> "none"]
NoRequests == [p \in Procs |-> NoRequest]
NoObs == [docs |-> EmptyStore, raced |-> FALSE, overlapped |-> FALSE]
Pending == [status |-> 0]

\* a handler between its first statement and its return
InFlight(p) == pc[p].at \notin {"idle", "done", "failed"}
\* a handler that has returned or raised: its response is in req
Answered(p) == pc[p].at \in {"done", "failed"}

\* the iterations of the three insert loops of ingest, in order
AllItems(payload) ==
    [i \in DOMAIN MatrixItems(payload.matrix) |->
        [col |-> MATRIX_COL, item |-> MatrixItems(payload.matrix)[i]]]
    \o [i \in DOMAIN StandardsItems(payload.standards) |->
        [col |-> STANDARDS_COL, item |-> StandardsItems(payload.standards)[i]]]
    \o [i \in DOMAIN DefsItems(payload.definitions) |->
        [col |-> DEFS_COL, item |-> DefsItems(payload.definitions)[i]]]

\* a mutant: the store handle is not checked
WStartNoCheck(w, payload) ==
    /\ pc[w].at = "idle"
    /\ payload.replace \/ ~dbAvailable \/ appends < MaxAppends
    /\ pc' = [pc EXCEPT ![w] =
                IF payload.replace THEN [at |-> "clear", k |-> 1]
                ELSE [at |-> "insert", k |-> 1]]
    /\ req' = [req EXCEPT ![w] =
                 [op |-> "ingest", payload |-> payload,
                  base |-> IF payload.replace THEN EmptyStore ELSE store,
                  resp |-> Pending]]
    /\ appends' = IF ~dbAvailable THEN appends
                  ELSE IF payload.replace THEN 0 ELSE appends + 1
    /\ obs' = [obs EXCEPT !.overlapped = @ \/ \E v \in Writers \ {w} : InFlight(v),
                          !.raced = @ \/ pc["r"].at # "idle"]
    /\ UNCHANGED <<dbAvailable, store>>

\* ingest: the check of the store handle and the test of payload.replace.
\* base is the store the insert loops start from: the store as found when
\* nothing is to be cleared, else the store the clear leaves (set by WClear).
WStart(w, payload) ==
    /\ pc[w].at = "idle"
    /\ payload.replace \/ ~dbAvailable \/ appends < MaxAppends
    /\ pc' = [pc EXCEPT ![w] =
                IF ~dbAvailable THEN [at |-> "failed", k |-> 0]
                ELSE IF payload.replace THEN [at |-> "clear", k |-> 1]
                ELSE [at |-> "insert", k |-> 1]]
    /\ req' = [req EXCEPT ![w] =
                 [op |-> "ingest", payload |-> payload,
                  base |-> IF payload.replace THEN EmptyStore ELSE store,
                  resp |-> IF ~dbAvailable THEN Unavailable ELSE Pending]]
    /\ appends' = IF ~dbAvailable THEN appends
                  ELSE IF payload.replace THEN 0 ELSE appends + 1
    /\ obs' = [obs EXCEPT !.overlapped = @ \/ \E v \in Writers \ {w} : InFlight(v),
                          !.raced = @ \/ pc["r"].at # "idle"]
    /\ UNCHANGED <<dbAvailable, store>>

\* ingest: one delete_many of _clear_collections, or its return
WClear(w) ==
    /\ pc[w].at = "clear"
    /\ IF pc[w].k <= Len(ClearOrder)
       THEN /\ store' = delete_many(store, ClearOrder[pc[w].k])
            /\ pc' = [pc EXCEPT ![w].k = @ + 1]
            /\ req' = req
       ELSE /\ store' = store
            /\ pc' = [pc EXCEPT ![w] = [at |-> "insert", k |-> 1]]
            /\ req' = [req EXCEPT ![w].base = store]
    /\ UNCHANGED <<dbAvailable, appends, obs>>

\* ingest: one iteration of an insert loop, or the return after the last
WInsert(w) ==
    /\ pc[w].at = "insert"
    /\ LET items == AllItems(req[w].payload)
           k == pc[w].k
       IN IF k > Len(items)
          THEN /\ pc' = [pc EXCEPT ![w] = [at |-> "done", k |-> 0]]
               /\ req' = [req EXCEPT ![w].resp = [status |-> 200, body |-> "ok"]]
               /\ store' = store
          ELSE IF items[k].item.k = "raise"
          THEN /\ pc' = [pc EXCEPT ![w] = [at |-> "failed", k |-> 0]]
               /\ req' = [req EXCEPT ![w].resp = InternalError]
               /\ store' = store
          ELSE /\ pc' = [pc EXCEPT ![w].k = @ + 1]
               /\ req' = req
               /\ store' = IF items[k].item.k = "doc"
                           THEN create_document(store, items[k].col, items[k].item.d)
                           ELSE store
    /\ UNCHANGED <<dbAvailable, appends, obs>>

\* the collections a read fetches from, in the order of its find calls
ReadOrder == <<MATRIX_COL, STANDARDS_COL, DEFS_COL>>

\* an ingest is or was at work beside the read in flight
Racing == obs.raced \/ \E w \in Writers : InFlight(w)

\* a read begins with the check of the store handle: get competencies for a
\* title and level, or list titles
RStart(op, title, level) ==
    /\ pc["r"].at = "idle"
    /\ pc' = [pc EXCEPT !["r"] =
                IF ~dbAvailable THEN [at |-> "failed", k |-> 0] ELSE [at |-> op, k |-> 1]]
    /\ req' = [req EXCEPT !["r"] =
                 [op |-> op, title |-> title, level |-> level,
                  resp |-> IF ~dbAvailable THEN Unavailable ELSE Pending]]
    /\ obs' = [obs EXCEPT !.docs = EmptyStore, !.raced = FALSE]
    /\ UNCHANGED <<dbAvailable, store, appends>>

\* get competencies: find_one on the matrix, find_one on the standards when a
\* level is given, find on the definitions, then the rows and the response
RGet ==
    /\ pc["r"].at = "get"
    /\ LET t == _normalize_title(req["r"].title)
           level == req["r"].level
           k == pc["r"].k
           fetched ==
              CASE k = 1 -> IF MatrixMatches(store, t) = {} THEN << >>
                            ELSE <<store[MATRIX_COL][First(MatrixMatches(store, t))]>>
                [] k = 2 -> IF StandardsMatches(store, t, PyStr(level)) = {} THEN << >>
                            ELSE <<store[STANDARDS_COL][
                                      First(StandardsMatches(store, t, PyStr(level)))]>>
                [] k = 3 -> store[DEFS_COL]
           docs == [obs.docs EXCEPT ![ReadOrder[k]] = fetched]
           final == (k = 1 /\ fetched = << >>) \/ k = 3
       IN /\ obs' = [obs EXCEPT !.docs = docs, !.raced = Racing]
          /\ pc' = [pc EXCEPT !["r"] =
                      IF final THEN [at |-> "done", k |-> 0]
                      ELSE IF k = 1 /\ ~Truthy(level) THEN [at |-> "get", k |-> 3]
                      ELSE [at |-> "get", k |-> k + 1]]
          /\ req' = IF final
                    THEN [req EXCEPT !["r"].resp =
                            get_competencies(TRUE, docs, req["r"].title, level).resp]
                    ELSE req
    /\ UNCHANGED <<dbAvailable, store, appends>>

\* list titles: find on the matrix, find on the standards, then the response
RList ==
    /\ pc["r"].at = "list"
    /\ LET k == pc["r"].k
           docs == [obs.docs EXCEPT ![ReadOrder[k]] = store[ReadOrder[k]]]
       IN /\ obs' = [obs EXCEPT !.docs = docs, !.raced = Racing]
          /\ pc' = [pc EXCEPT !["r"] =
                      IF k = 2 THEN [at |-> "done", k |-> 0] ELSE [at |-> "list", k |-> 2]]
          /\ req' = IF k = 2
                    THEN [req EXCEPT !["r"].resp = list_titles(TRUE, docs).resp]
                    ELSE req
    /\ UNCHANGED <<dbAvailable, store, appends>>

\* the response has gone to the client and the thread is free for the next
\* request
Return(p) ==
    /\ Answered(p)
    /\ pc' = [pc EXCEPT ![p] = [at |-> "idle", k |-> 0]]
    /\ req' = [req EXCEPT ![p] = NoRequest]
    /\ obs' = IF p = "r" THEN [obs EXCEPT !.docs = EmptyStore, !.raced = FALSE] ELSE obs
    /\ UNCHANGED <<dbAvailable, store, appends>>

(***************************************************************************)
(* Ingests (Spec): any number of ingests on one thread, and beside them    *)
(* queries for one title on another.                                       *)
(***************************************************************************)
Init ==
    /\ dbAvailable \in BOOLEAN
    /\ store \in {EmptyStore, SeedStore}
    /\ req = NoRequests
    /\ appends = 0
    /\ pc = Idle
    /\ obs = NoObs

Next ==
    \/ \E payload \in Requests : WStart("w1", payload)
    \/ WClear("w1")
    \/ WInsert("w1")
    \/ RStart("get", <<"a", " ", " ", "b">>, Str(L_B))
    \/ RGet
    \/ \E p \in {"w1", "r"} : Return(p)

Spec == Init /\ [][Next]_vars

(***************************************************************************)
(* Reads (SpecRead): any number of reads, for every title and level of the *)
(* model, and beside them one ingest.                                      *)
(***************************************************************************)
InitRead ==
    /\ dbAvailable \in BOOLEAN
    /\ store \in {EmptyStore, SeedStore}
    /\ req = NoRequests
    /\ appends = 0
    /\ pc = Idle
    /\ obs = NoObs

NextRead ==
    \/ \E payload \in Requests : WStart("w1", payload)
    \/ WClear("w1")
    \/ WInsert("w1")
    \/ \E title \in QueryTitles, level \in QueryLevels : RStart("get", title, level)
    \/ RStart("list", << >>, Null)
    \/ RGet
    \/ RList
    \/ Return("r")

SpecRead == InitRead /\ [][NextRead]_vars

(***************************************************************************)
(* Properties of ingests (Spec) and of reads (SpecRead).  posted is the    *)
(* ingest request of thread w1 and query the read request of thread r.  A  *)
(* read is quiet when no ingest was at work from its first store operation *)
(* on: the store is then the one the read ran on.                          *)
(***************************************************************************)
posted == req["w1"]
query == req["r"]
IngestAnswered == Answered("w1")
GetAnswered == pc["r"].at = "done" /\ query.op = "get"
Quiet == ~obs.raced

\* the documents a payload yields on its own: its ingest into an empty store
Derived(payload) ==
    IngestInserts([store |-> EmptyStore, raised |-> FALSE, ops |-> 0], payload).store

\* C1: an ingest run on an available store with no other ingest beside it,
\* with replace=true, leaves in each collection exactly the documents derived
\* from its own payload, whatever an earlier ingest left there; with
\* replace=false it leaves the earlier documents, all of them and in place,
\* followed by those of its own payload.
C1_ReplaceOrAppend ==
    (dbAvailable /\ IngestAnswered) =>
        \A c \in Collections :
            store[c] = IF posted.payload.replace THEN Derived(posted.payload)[c]
                       ELSE posted.base[c] \o Derived(posted.payload)[c]

\* a second ingest with replace=false returned and both batches are there
C1_Witness ==
    /\ dbAvailable /\ IngestAnswered /\ ~posted.payload.replace
    /\ posted.resp.status = 200
    /\ appends = 1
    /\ \A c \in Collections :
          /\ Derived(posted.payload)[c] # << >>
          /\ Len(store[c]) > Len(Derived(posted.payload)[c])
          /\ posted.base[c] # << >>

\* C2: with the store handle unset, no step changes the store, no handler
\* gets to a store operation, and ingest, list titles and get competencies
\* each answer 500 "Database not available"; a replace=true ingest deletes
\* nothing.
C2_UnavailableBeforeAnyStoreCall ==
    [][~dbAvailable =>
        /\ store' = store
        /\ \A p \in Procs :
              /\ pc'[p].at \in {"idle", "failed"}
              /\ pc'[p].at = "failed" => req'[p].resp = Unavailable]_vars

\* a replace=true ingest was refused on a store that holds documents
C2_Witness ==
    /\ ~dbAvailable /\ IngestAnswered /\ posted.payload.replace
    /\ posted.resp.status = 500
    /\ \A c \in Collections : store[c] # << >>

\* the documents of one part of a payload when every malformed item is skipped
RECURSIVE WellFormedDocs(_)
WellFormedDocs(items) ==
    IF items = << >> THEN << >>
    ELSE IF Head(items).k = "doc" THEN <<Head(items).d>> \o WellFormedDocs(Tail(items))
    ELSE WellFormedDocs(Tail(items))

\* C3: with the store available every ingest answers 200, whatever the shape
\* of its payload, and inserts the documents of the well-formed parts.
C3_IngestNeverFails ==
    (dbAvailable /\ IngestAnswered /\ posted.payload.replace) =>
        /\ posted.resp.status = 200
        /\ store[MATRIX_COL] = WellFormedDocs(MatrixItems(posted.payload.matrix))
        /\ store[STANDARDS_COL] = WellFormedDocs(StandardsItems(posted.payload.standards))
        /\ store[DEFS_COL] = WellFormedDocs(DefsItems(posted.payload.definitions))

\* C4: after a replace=true ingest no two matrix documents have the same
\* title, and a query for a title uses the batch's last entry for that title.
C4_OneEntryPerTitleLastWins ==
    (dbAvailable /\ IngestAnswered /\ posted.payload.replace /\ posted.resp.status = 200) =>
        /\ \A i, j \in DOMAIN store[MATRIX_COL] :
              store[MATRIX_COL][i].job_title = store[MATRIX_COL][j].job_title => i = j
        /\ \A i \in DOMAIN store[MATRIX_COL] :
              LET t == store[MATRIX_COL][i].job_title
              IN First(MatrixMatches(store, t)) = Latest(MatrixMatches(store, t))

\* a title as a sequence of words: the symbols between whitespace
IsNormalized(t) ==
    /\ \A i \in DOMAIN t : t[i] # "\t"
    /\ t # << >> => t[1] # " " /\ t[Len(t)] # " "
    /\ \A i \in 1..(Len(t) - 1) : ~(t[i] = " " /\ t[i + 1] = " ")

\* C6: get competencies answers 404 exactly when no matrix document has the
\* normalized title; and when one has, with the level omitted or no standards
\* document for (title, level), the query answers 200 and every row's standard
\* and standard_definition are null.
C6_NotFoundIffNoEntry ==
    (dbAvailable /\ GetAnswered /\ Quiet) =>
        LET t == _normalize_title(query.title)
            entries == {i \in DOMAIN store[MATRIX_COL] : store[MATRIX_COL][i].job_title = t}
            noRecord == \/ query.level = Null
                        \/ ~\E i \in DOMAIN store[STANDARDS_COL] :
                              /\ store[STANDARDS_COL][i].job_title = t
                              /\ store[STANDARDS_COL][i].level = query.level.v
        IN /\ query.resp.status = 404 <=> entries = {}
           /\ (entries # {} /\ noRecord)
              => /\ query.resp.status = 200
                 /\ \A n \in DOMAIN query.resp.items :
                       /\ query.resp.items[n].standard = Null
                       /\ query.resp.items[n].standard_definition = Null

\* C7: a row's standard_definition is the text of a key of the definition's
\* values that equals the row's standard ignoring letter case, whenever there
\* is such a key.
C7_CaseInsensitiveValueMatch ==
    (dbAvailable /\ GetAnswered /\ Quiet /\ query.resp.status = 200) =>
        \A n \in DOMAIN query.resp.items :
            LET row == query.resp.items[n]
                values == DefsGet(store, row.key).values
            IN (IsStr(row.standard) /\ IsDict(values)) =>
                \A i \in DOMAIN values.v :
                    PyLower(values.v[i][1]) = PyLower(row.standard.v)
                        => row.standard_definition # Null

\* the references of a sequence that have a key, in order
RECURSIVE Keyed(_)
Keyed(refs) ==
    IF refs = << >> THEN << >>
    ELSE IF (IsStr(Head(refs)) /\ Head(refs).v # << >>)
            \/ (IsDict(Head(refs))
                /\ \E f \in {F_key, F_id, F_name} : Truthy(Get(Head(refs), f)))
    THEN <<Head(refs)>> \o Keyed(Tail(refs))
    ELSE Keyed(Tail(refs))

\* C9: the items of a successful get competencies are, in the entry's order,
\* one row for each competency reference that has a key (a non-empty string,
\* or an object with a non-empty key, id or name) and none for the others;
\* each row's standard is the level lookup table's entry for the row's key.
C9_RowsFollowReferences ==
    (dbAvailable /\ GetAnswered /\ Quiet /\ query.resp.status = 200) =>
        LET t == _normalize_title(query.title)
            entry == store[MATRIX_COL][First(MatrixMatches(store, t))]
            keyed == Keyed(Iterate(entry.competencies))
            table == LevelMapping(store, t, query.level)
        IN /\ Len(query.resp.items) = Len(keyed)
           /\ \A n \in DOMAIN keyed :
                 /\ query.resp.items[n].key =
                        IF IsStr(keyed[n]) THEN keyed[n]
                        ELSE IF Truthy(Get(keyed[n], F_key)) THEN Get(keyed[n], F_key)
                        ELSE IF Truthy(Get(keyed[n], F_id)) THEN Get(keyed[n], F_id)
                        ELSE Get(keyed[n], F_name)
                 /\ query.resp.items[n].standard = Lookup(table, query.resp.items[n].key)

\* a query returned fewer rows than the entry has references, more than one
\* row, and two rows with different standards
C9_Witness ==
    /\ dbAvailable /\ GetAnswered /\ Quiet /\ query.resp.status = 200
    /\ LET entry == store[MATRIX_COL][First(MatrixMatches(store, _normalize_title(query.title)))]
       IN /\ IsList(entry.competencies)
          /\ Len(query.resp.items) < Len(entry.competencies.v)
    /\ Len(query.resp.items) > 1
    /\ \E n, m \in DOMAIN query.resp.items :
          /\ query.resp.items[n].standard # Null
          /\ query.resp.items[m].standard # Null
          /\ query.resp.items[n].standard # query.resp.items[m].standard

(***************************************************************************)
(* The two shapes of a matrix, each ingested into an empty store           *)
(* (SpecShape).  A mapping M is a sequence of <<title, competency list>>   *)
(* pairs with distinct titles.                                             *)
(***************************************************************************)
ShapeTitles == {<< >>, <<" ">>, T_a, <<" ", "a">>, T_ab}
ShapeLists ==
    {EmptyList, List(<<Str(K_c)>>),
     List(<<Str(K_c_d), Obj(<<Pair(F_key, Str(K_c))>>)>>)}

RECURSIVE Mappings(_)
Mappings(n) ==
    IF n = 0 THEN {<< >>}
    ELSE Mappings(n - 1) \cup
         {Append(m, <<t, l>>) : m \in {x \in Mappings(n - 1) : Len(x) = n - 1},
                                t \in ShapeTitles, l \in ShapeLists}
DistinctKeys(m) == \A i, j \in DOMAIN m : m[i][1] = m[j][1] => i = j
ShapeMappings == {m \in Mappings(MaxKeys) : DistinctKeys(m)}

AsMapping(m) == Obj(m)
AsSequence(m) ==
    List([i \in DOMAIN m |->
            Obj(<<Pair(F_job_title, Str(m[i][1])), Pair(F_competencies, m[i][2])>>)])

MatrixOnly(matrix) ==
    [matrix |-> matrix, standards |-> EmptyObj, definitions |-> EmptyObj, replace |-> TRUE]

InitEmpty ==
    /\ dbAvailable = TRUE
    /\ store = EmptyStore
    /\ req = NoRequests
    /\ appends = 0
    /\ pc = Idle
    /\ obs = NoObs

\* one ingest of a matrix in either shape
NextShape ==
    \/ \E m \in ShapeMappings : WStart("w1", MatrixOnly(AsMapping(m)))
    \/ \E m \in ShapeMappings : WStart("w1", MatrixOnly(AsSequence(m)))
    \/ WClear("w1")
    \/ WInsert("w1")

SpecShape == InitEmpty /\ [][NextShape]_vars

Range(f) == {f[i] : i \in DOMAIN f}

\* the mapping a posted matrix was written from
PostedMapping ==
    IF IsDict(posted.payload.matrix) THEN posted.payload.matrix.v
    ELSE [i \in DOMAIN posted.payload.matrix.v |->
            <<Get(posted.payload.matrix.v[i], F_job_title).v,
              Get(posted.payload.matrix.v[i], F_competencies)>>]

\* the matrix documents the other shape of the same mapping leaves
OtherShape ==
    Derived(MatrixOnly(IF IsDict(posted.payload.matrix) THEN AsSequence(PostedMapping)
                       ELSE AsMapping(PostedMapping)))[MATRIX_COL]

\* C5 as stated: for every mapping, the mapping shape and the sequence shape
\* leave the same set of matrix documents.
C5_ShapesEquivalent ==
    IngestAnswered => Range(store[MATRIX_COL]) = Range(OtherShape)

\* C5 as amended: for every mapping whose titles each hold a symbol that is
\* not whitespace, the mapping shape and the sequence shape leave the same set
\* of matrix documents.
C5_ShapesEquivalentNonEmptyTitles ==
    (IngestAnswered
       /\ \A i \in DOMAIN PostedMapping : \E n \in DOMAIN PostedMapping[i][1] :
             PostedMapping[i][1][n] \notin Whitespace)
    => Range(store[MATRIX_COL]) = Range(OtherShape)

\* a mapping of two titles, each with a symbol that is not whitespace and one
\* written with extra whitespace, was ingested
C5_Witness ==
    /\ IngestAnswered /\ posted.resp.status = 200
    /\ Len(PostedMapping) = 2 /\ Len(store[MATRIX_COL]) = 2
    /\ \A i \in DOMAIN PostedMapping : \E n \in DOMAIN PostedMapping[i][1] :
          PostedMapping[i][1][n] \notin Whitespace
    /\ \E i \in DOMAIN PostedMapping : PostedMapping[i][1] # store[MATRIX_COL][i].job_title
    /\ \E i \in DOMAIN store[MATRIX_COL] : store[MATRIX_COL][i].competencies # EmptyList

(***************************************************************************)
(* Titles written with any whitespace (SpecTitles): one ingest of a title  *)
(* and one query for a title.                                              *)
(***************************************************************************)
TitleSymbols == {"a", " ", "\t"}
RECURSIVE TitlesUpTo(_)
TitlesUpTo(n) ==
    IF n = 0 THEN {<< >>}
    ELSE TitlesUpTo(n - 1) \cup
         {Append(t, c) : t \in {x \in TitlesUpTo(n - 1) : Len(x) = n - 1}, c \in TitleSymbols}
AllTitles == TitlesUpTo(MaxTitleLen)

TitlePayload(t, shape) ==
    IF shape = "mapping"
    THEN [matrix |-> Obj(<<Pair(t, List(<<Str(K_c)>>))>>),
          standards |-> Obj(<<Pair(t, Obj(<<Pair(L_B, Obj(<<Pair(K_c, Str(V_ad))>>))>>))>>),
          definitions |-> EmptyObj, replace |-> TRUE]
    ELSE [matrix |-> List(<<Obj(<<Pair(F_title, Str(t)),
                                  Pair(F_skills, List(<<Str(K_c)>>))>>)>>),
          standards |-> List(<<Obj(<<Pair(F_title, Str(t)), Pair(F_level, Str(L_B)),
                                     Pair(F_standards, Obj(<<Pair(K_c, Str(V_ad))>>))>>)>>),
          definitions |-> EmptyObj, replace |-> TRUE]

NextTitles ==
    \/ \E t \in AllTitles, shape \in {"mapping", "sequence"} :
          WStart("w1", TitlePayload(t, shape))
    \/ WClear("w1")
    \/ WInsert("w1")
    \/ \E t \in AllTitles : RStart("get", t, Str(L_B))
    \/ RGet

SpecTitles == InitEmpty /\ [][NextTitles]_vars

\* a title read as words: its symbols that are not whitespace, each marked
\* when whitespace separates it from the one before
RECURSIVE NonWs(_)
NonWs(is) ==
    IF is = {} THEN << >>
    ELSE LET i == CHOOSE x \in is : \A y \in is : x <= y IN <<i>> \o NonWs(is \ {i})
Letters(t) ==
    LET at == NonWs({i \in DOMAIN t : t[i] \notin Whitespace})
    IN [n \in DOMAIN at |-> <<t[at[n]], n > 1 /\ at[n] # at[n - 1] + 1>>]
OnlyWhitespaceDiffers(u, v) == Letters(u) = Letters(v)

\* C8: titles that differ only in whitespace are one entity: normalizing a
\* normalized title changes nothing; every job_title ingest stores is in
\* normalized form; and get competencies, given any title that differs only
\* in whitespace from a stored one, finds that entry and returns the
\* normalized title.
C8_WhitespaceVariantsAreOneTitle ==
    /\ \A c \in {MATRIX_COL, STANDARDS_COL} : \A i \in DOMAIN store[c] :
          IsNormalized(store[c][i].job_title)
    /\ IngestAnswered =>
          \A i \in DOMAIN posted.payload.matrix.v :
                LET raw == IF IsDict(posted.payload.matrix) THEN posted.payload.matrix.v[i][1]
                           ELSE Get(posted.payload.matrix.v[i], F_title).v
                IN /\ _normalize_title(_normalize_title(raw)) = _normalize_title(raw)
                   /\ OnlyWhitespaceDiffers(raw, _normalize_title(raw))
                   /\ _normalize_title(raw) # << >> =>
                         \E n \in DOMAIN store[MATRIX_COL] :
                             store[MATRIX_COL][n].job_title = _normalize_title(raw)
    /\ (GetAnswered /\ Quiet) =>
          /\ _normalize_title(_normalize_title(query.title)) = _normalize_title(query.title)
          /\ \A i \in DOMAIN store[MATRIX_COL] :
                OnlyWhitespaceDiffers(query.title, store[MATRIX_COL][i].job_title) =>
                    /\ query.resp.status = 200
                    /\ query.resp.title = store[MATRIX_COL][i].job_title
                    /\ Len(query.resp.items) = 1
                    /\ query.resp.items[1].standard = Str(V_ad)
          /\ query.resp.status = 200 =>
                \E i \in DOMAIN store[MATRIX_COL] :
                    OnlyWhitespaceDiffers(query.title, store[MATRIX_COL][i].job_title)

\* a stored two-word title was found by a query written with other whitespace
C8_Witness ==
    /\ GetAnswered /\ Quiet /\ IngestAnswered /\ query.resp.status = 200
    /\ Len(query.title) > Len(query.resp.title)
    /\ \E i \in DOMAIN query.resp.title : query.resp.title[i] = " "
    /\ \E i \in DOMAIN query.title : query.title[i] = "\t"

(***************************************************************************)
(* Ingests run together (SpecConc): two replace=true ingests and one read, *)
(* each handled once.                                                      *)
(***************************************************************************)
\* a batch whose documents carry its tag in each collection
ConcRequest(tag) ==
    [matrix |-> Obj(<<Pair(T_ab, List(<<Str(K_c), Str(<<tag>>)>>))>>),
     standards |-> Obj(<<Pair(T_ab, Obj(<<Pair(L_B, Obj(<<Pair(K_c, Str(<<tag>>))>>))>>))>>),
     definitions |-> Obj(<<Pair(K_c, Obj(<<Pair(F_description, Str(<<tag>>))>>))>>),
     replace |-> TRUE]
Tags == {"old", "w1", "w2"}
PayloadOf(w) == ConcRequest(w)

InitConc ==
    /\ dbAvailable = TRUE
    /\ store = Derived(ConcRequest("old"))
    /\ req = NoRequests
    /\ appends = 0
    /\ pc = Idle
    /\ obs = NoObs

NextConc ==
    \/ \E w \in Writers : WStart(w, PayloadOf(w))
    \/ \E w \in Writers : WClear(w)
    \/ \E w \in Writers : WInsert(w)
    \/ \E level \in {Null, Str(L_B)} : RStart("get", <<"a", " ", " ", "b">>, level)
    \/ RStart("list", << >>, Null)
    \/ RGet
    \/ RList

SpecConc == InitConc /\ [][NextConc]_vars

\* the store one whole batch leaves, and the responses it gives
WholeBatches == {Derived(ConcRequest(tag)) : tag \in Tags}
WholeResponses ==
    {IF query.op = "get" THEN get_competencies(TRUE, st, query.title, query.level).resp
     ELSE list_titles(TRUE, st).resp : st \in WholeBatches}

\* C10: ingest's clear and inserts are separate store operations under no
\* lock.  Whenever the store is not one whole batch, an ingest is in flight or
\* two ingests have run together; whenever a read's response is not the
\* response of one whole batch, an ingest ran during the read or two ingests
\* have run together; and an ingest running alone leaves what the handler run
\* in one piece leaves.  (The state the claim says can be reached, a read that
\* joins the matrix of one batch with the standards of another, is
\* C10_Witness.)
C10_InconsistentOnlyWhenInterleaved ==
    /\ (~obs.overlapped /\ \A w \in Writers : ~InFlight(w)) => store \in WholeBatches
    /\ (~obs.overlapped /\ \E w \in Writers : pc[w].at = "done"
          /\ \A v \in Writers \ {w} : pc[v].at = "idle")
       => \E w \in Writers :
             store = ingest(TRUE, Derived(ConcRequest("old")), PayloadOf(w)).store
    /\ (query.op \in {"get", "list"} /\ pc["r"].at = "done"
          /\ ~obs.raced /\ ~obs.overlapped)
       => query.resp \in WholeResponses

\* a read that ran beside a single ingest answered 200 with the competencies
\* of the old batch and the standard of the new one
C10_Witness ==
    /\ query.op = "get" /\ pc["r"].at = "done" /\ query.resp.status = 200
    /\ ~obs.overlapped /\ obs.raced
    /\ Len(query.resp.items) = 2
    /\ query.resp.items[2].key = Str(<<"old">>)
    /\ query.resp.items[1].standard # Null
    /\ query.resp.items[1].standard # Str(<<"old">>)
    /\ store \notin WholeBatches

====
